---- MODULE Spec2Model ----
(***************************************************************************)
(* A model of masr/model_utils/conformer/model.py (ConformerModel, its two *)
(* construction presets, the training forward pass and the streaming entry *)
(* point) and of masr/data_utils/augmentor/resample.py.                    *)
(*                                                                         *)
(* Python floats are modelled as exact rationals <<n, d>> in lowest terms  *)
(* with d > 0; the Python value None of an optional loss is <<0, 0>>.      *)
(* Collaborators whose code is outside the two files (encoder, decoder,    *)
(* criteria, label utilities) are calls recorded in a trace; what they     *)
(* return is drawn nondeterministically by the calling action.             *)
(* Python runs with its assert statements enabled (no -O): a failed assert  *)
(* raises AssertionError.                                                  *)
(***************************************************************************)
EXTENDS Integers, Sequences, FiniteSets, TLC

VARIABLES
    instances,  \* the ConformerModel instances that exist
    call,       \* the arguments of the operation in progress / last made
    result,     \* its outcome: error raised, value returned
    trace,      \* the collaborator calls it made, in order
    defaults,   \* the default-argument tensors of get_encoder_out_chunk
    sess,       \* per streaming session: what its caller holds
    aug,        \* the ResampleAugmentor
    segs        \* the audio segments

vars == <<instances, call, result, trace, defaults, sess, aug, segs>>

(***************************** bounds **************************************)
Scale == 3        \* weights range over k / Scale
MaxBatch == 2     \* batch dimensions range over 1..MaxBatch
MaxT == 2         \* encoder output length
MaxLoss == 2      \* a criterion returns a loss in 0..MaxLoss
MaxChunks == 2    \* chunks a streaming session feeds
MaxChunkLen == 2  \* frames in one chunk
MaxCache == 2     \* required_cache_size ranges over 0..MaxCache
MaxRates == 2     \* length of the candidate sample-rate list
MaxTransforms == 2 \* transform_audio calls per audio segment

(***************************** rationals **********************************)
RECURSIVE GCD(_, _)
GCD(a, b) == IF b = 0 THEN a ELSE GCD(b, a % b)

Abs(x) == IF x < 0 THEN -x ELSE x

Norm(n, d) ==
    LET g == GCD(Abs(n), Abs(d))
        s == IF d < 0 THEN -1 ELSE 1
    IN  <<(s * n) \div g, (s * d) \div g>>

None == <<0, 0>>
Zero == <<0, 1>>
One == <<1, 1>>
Int2R(i) == <<i, 1>>
RAdd(x, y) == Norm(x[1] * y[2] + y[1] * x[2], x[2] * y[2])
RSub(x, y) == Norm(x[1] * y[2] - y[1] * x[2], x[2] * y[2])
RMul(x, y) == Norm(x[1] * y[1], x[2] * y[2])
RLe(x, y) == x[1] * y[2] <= y[1] * x[2]
RLt(x, y) == x[1] * y[2] < y[1] * x[2]

Weights == {Norm(k, Scale) : k \in -1 .. Scale + 1}

(***************************** results ************************************)
NoCall == [op |-> "none"]
NoBundle == [loss |-> None, loss_att |-> None, loss_ctc |-> None]
NoResult == [err |-> "pending", returned |-> FALSE, bundle |-> NoBundle]
Raised(e) == [err |-> e, returned |-> FALSE, bundle |-> NoBundle]
Returned(b) == [err |-> "none", returned |-> TRUE, bundle |-> b]

\* a value handed between collaborators: its name and the position in the
\* trace of the call that produced it (0: an argument of the operation)
Val(sym, k) == [sym |-> sym, k |-> k]

Ev(fn, args, lens, w, mask, ret) ==
    [fn |-> fn, args |-> args, lens |-> lens, w |-> w, mask |-> mask, ret |-> ret]

Calls(tr, fn) == {i \in DOMAIN tr : tr[i].fn = fn}

(************************ ConformerModel.__init__ *************************)
BoolArg == BOOLEAN
DefaultUseDynamicChunk == FALSE
DefaultUseDynamicLeftChunk == FALSE
DefaultCausal == FALSE

\* mutant: only the lower end of the range is asserted
CtcWeightNonNegative(ctc_weight) == RLe(Zero, ctc_weight)

CtcWeightValid(ctc_weight) == RLe(Zero, ctc_weight) /\ RLe(ctc_weight, One)

\* the components built by a successful construction, in the order built
InitCalls(a, udc, udlc, causal) ==
    << Ev("FeatureNormalizer", <<Val(a.configs.mean_istd_path, 0)>>, <<>>, None, <<>>, None),
       Ev("GlobalCMVN", <<Val("mean", 1), Val("istd", 1)>>, <<>>, None, <<>>, None),
       Ev("ConformerEncoder", <<Val("global_cmvn", 2), Val(a.configs.encoder_conf, 0)>>,
          <<a.input_dim>>, None, <<>>, None),
       Ev("BiTransformerDecoder", <<Val("encoder.output_size", 3), Val(a.configs.decoder_conf, 0)>>,
          <<a.vocab_size>>, None, <<>>, None),
       Ev("CTCLoss", <<Val("encoder.output_size", 3)>>, <<a.vocab_size>>, None, <<>>, None),
       Ev("LabelSmoothingLoss", <<>>, <<a.vocab_size, a.ignore_id>>, a.lsm_weight, <<>>, None) >>

InitSelf(a, udc, udlc, causal) ==
    [ input_dim |-> a.input_dim,
      encoder |-> [ input_dim |-> a.input_dim,
                    global_cmvn |-> a.configs.mean_istd_path,
                    use_dynamic_chunk |-> udc,
                    use_dynamic_left_chunk |-> udlc,
                    causal |-> causal,
                    conf |-> a.configs.encoder_conf ],
      decoder |-> [ vocab_size |-> a.vocab_size, conf |-> a.configs.decoder_conf ],
      ctc |-> [ vocab_size |-> a.vocab_size ],
      sos |-> a.vocab_size - 1,
      eos |-> a.vocab_size - 1,
      vocab_size |-> a.vocab_size,
      ignore_id |-> a.ignore_id,
      ctc_weight |-> a.ctc_weight,
      reverse_weight |-> a.reverse_weight,
      criterion_att |-> [ size |-> a.vocab_size,
                          padding_idx |-> a.ignore_id,
                          smoothing |-> a.lsm_weight,
                          normalize_length |-> a.length_normalized_loss ] ]

\* __init__: the assert on ctc_weight is the first statement
ConformerModel(a, udc, udlc, causal) ==
    IF ~CtcWeightValid(a.ctc_weight)
    THEN [res |-> Raised("AssertionError"), made |-> {}, calls |-> <<>>]
    ELSE [res |-> Returned(NoBundle),
          made |-> {InitSelf(a, udc, udlc, causal)},
          calls |-> InitCalls(a, udc, udlc, causal)]

ConformerModelOnline(a) == ConformerModel(a, TRUE, FALSE, TRUE)

\* mutant: the offline preset asks for causal convolutions
OfflineButCausal(a) == ConformerModel(a, DefaultUseDynamicChunk, DefaultUseDynamicLeftChunk, TRUE)

ConformerModelOffline(a) ==
    ConformerModel(a, DefaultUseDynamicChunk, DefaultUseDynamicLeftChunk, DefaultCausal)

Configs ==
    [mean_istd_path : {"mean_istd.json"}, encoder_conf : {"enc_small", "enc_large"},
     decoder_conf : {"dec_small"}]

CtorArgs ==
    [ configs : Configs, input_dim : {80}, vocab_size : {4, 100},
      ctc_weight : Weights, ignore_id : {-1, 0}, reverse_weight : Weights,
      lsm_weight : {Zero, Norm(1, 10)}, length_normalized_loss : BOOLEAN ]

Idle == result = NoResult /\ call = NoCall

NewConformerModel ==
    /\ Idle /\ instances = {}
    /\ \E a \in CtorArgs, udc \in BoolArg, udlc \in BoolArg, causal \in BoolArg :
        LET out == ConformerModel(a, udc, udlc, causal)
        IN  /\ call' = [op |-> "ConformerModel", args |-> a,
                        flags |-> <<udc, udlc, causal>>]
            /\ result' = out.res
            /\ instances' = out.made
            /\ trace' = out.calls
            /\ UNCHANGED <<defaults, sess, aug, segs>>

NewOnline ==
    /\ Idle /\ instances = {}
    /\ \E a \in CtorArgs :
        LET out == ConformerModelOnline(a)
        IN  /\ call' = [op |-> "ConformerModelOnline", args |-> a, flags |-> <<>>]
            /\ result' = out.res
            /\ instances' = out.made
            /\ trace' = out.calls
            /\ UNCHANGED <<defaults, sess, aug, segs>>

NewOffline ==
    /\ Idle /\ instances = {}
    /\ \E a \in CtorArgs :
        LET out == ConformerModelOffline(a)
        IN  /\ call' = [op |-> "ConformerModelOffline", args |-> a, flags |-> <<>>]
            /\ result' = out.res
            /\ instances' = out.made
            /\ trace' = out.calls
            /\ UNCHANGED <<defaults, sess, aug, segs>>

\* the caller drops the outcome (and the instance) and may construct again
Drop ==
    /\ ~Idle
    /\ call' = NoCall /\ result' = NoResult /\ instances' = {} /\ trace' = <<>>
    /\ UNCHANGED <<defaults, sess, aug, segs>>

NoDefaults == [att |-> <<>>, cnn |-> <<>>]
NoAug == [_new_sample_rate |-> <<>>, _rng |-> "rng"]

InitBuild ==
    /\ instances = {} /\ call = NoCall /\ result = NoResult /\ trace = <<>>
    /\ defaults = NoDefaults /\ sess = <<>> /\ aug = NoAug /\ segs = <<>>

NextBuild == NewConformerModel \/ NewOnline \/ NewOffline \/ Drop

SpecBuild == InitBuild /\ [][NextBuild]_vars

(************************ ConformerModel.forward **************************)
TextLengthsDims == {1, 2}

ForwardInputs ==
    [ b_speech : 1 .. MaxBatch, b_speech_lengths : 1 .. MaxBatch,
      b_text : 1 .. MaxBatch, b_text_lengths : 1 .. MaxBatch,
      text_lengths_dim : TextLengthsDims ]

\* the [B, 1, T] masks an encoder hands back: row b is valid up to its length
EncoderMasks(B) ==
    UNION { { [b \in 1 .. B |-> [t \in 1 .. T |-> t <= len[b]]] : len \in [1 .. B -> 1 .. T] }
            : T \in 1 .. MaxT }

\* what the collaborators return during one forward call
ForwardDraws(in) ==
    [ mask : EncoderMasks(in.b_speech), fwd : 0 .. MaxLoss, rev : 0 .. MaxLoss,
      ctc : 0 .. MaxLoss ]

RECURSIVE SumRow(_)
SumRow(row) ==
    IF row = <<>> THEN 0
    ELSE (IF row[1] THEN 1 ELSE 0) + SumRow(Tail(row))

\* text_lengths.dim() == 1
TextLengthsIsVector(in) == in.text_lengths_dim = 1

\* mutant: the two pairs are compared, but not with each other
BatchUnifiedPairwise(in) ==
    /\ in.b_speech = in.b_speech_lengths
    /\ in.b_text = in.b_text_lengths

\* speech.shape[0] == speech_lengths.shape[0] == text.shape[0] == text_lengths.shape[0]
BatchUnified(in) ==
    /\ in.b_speech = in.b_speech_lengths
    /\ in.b_speech_lengths = in.b_text
    /\ in.b_text = in.b_text_lengths

\* mutant: the padded length of each row instead of its valid count
PaddedLens(encoder_mask) ==
    [b \in DOMAIN encoder_mask |-> Len(encoder_mask[b])]

\* encoder_mask.squeeze(1).sum(1)
encoder_out_lens(encoder_mask) ==
    [b \in DOMAIN encoder_mask |-> SumRow(encoder_mask[b])]

\* mutant: the attention branch runs whatever the weight
AttBranchAlways(self) == TRUE

AttBranchActive(self) == self.ctc_weight # One

CtcBranchActive(self) == self.ctc_weight # Zero

\* mutant: the reverse loss is evaluated whatever the weight
RevLossAlways(self) == TRUE

RevLossActive(self) == RLt(Zero, self.reverse_weight)

\* loss_att * (1 - reverse_weight) + r_loss_att * reverse_weight
AttLoss(loss_att, r_loss_att, reverse_weight) ==
    RAdd(RMul(loss_att, RSub(One, reverse_weight)), RMul(r_loss_att, reverse_weight))

\* the reverse targets, built whatever the reverse weight is
ReverseTargetCalls(base) ==
    << Ev("reverse_pad_list", <<Val("text", 0), Val("text_lengths", 0)>>, <<>>, None, <<>>, None),
       Ev("add_sos_eos", <<Val("r_ys_pad", base + 2)>>, <<>>, None, <<>>, None) >>

\* the criterion on the reverse decoder output
ReverseLossCalls(self, base, ext) ==
    IF RevLossActive(self)
    THEN << Ev("criterion_att", <<Val("r_decoder_out", base + 4), Val("r_ys_out_pad", base + 3)>>,
               <<>>, None, <<>>, Int2R(ext.rev)) >>
    ELSE <<>>

\* base: the number of calls made before this one
calc_att_loss(self, encoder_out, encoder_mask, reverse_weight, base, ext) ==
    LET loss_att == Int2R(ext.fwd)
        r_loss_att == IF RevLossActive(self) THEN Int2R(ext.rev) ELSE Zero
    IN  [ loss |-> AttLoss(loss_att, r_loss_att, self.reverse_weight),
          calls |->
              << Ev("add_sos_eos", <<Val("text", 0)>>, <<>>, None, <<>>, None) >>
              \o ReverseTargetCalls(base)
              \o << Ev("decoder",
                       <<encoder_out, encoder_mask, Val("ys_in_pad", base + 1),
                         Val("ys_in_lens", 0), Val("r_ys_in_pad", base + 3)>>,
                       <<>>, self.reverse_weight, <<>>, None),
                    Ev("criterion_att",
                       <<Val("decoder_out", base + 4), Val("ys_out_pad", base + 1)>>,
                       <<>>, None, <<>>, loss_att) >>
              \o ReverseLossCalls(self, base, ext)
              \o << Ev("th_accuracy",
                       <<Val("decoder_out", base + 4), Val("ys_out_pad", base + 1)>>,
                       <<>>, None, <<>>, None) >> ]

\* mutant: the two losses are added unweighted
BlendUnweighted(ctc_weight, loss_ctc, loss_att) ==
    IF loss_ctc = None THEN loss_att
    ELSE IF loss_att = None THEN loss_ctc
    ELSE RAdd(loss_ctc, loss_att)

Blend(ctc_weight, loss_ctc, loss_att) ==
    IF loss_ctc = None THEN loss_att
    ELSE IF loss_att = None THEN loss_ctc
    ELSE RAdd(RMul(ctc_weight, loss_ctc), RMul(RSub(One, ctc_weight), loss_att))

EncoderCalls(ext) ==
    << Ev("encoder", <<Val("speech", 0), Val("speech_lengths", 0)>>, <<>>, None, ext.mask, None) >>

CtcCall(encoder_out, lens, ext) ==
    Ev("ctc", <<encoder_out, Val("text", 0), Val("text_lengths", 0)>>, lens, None, <<>>,
       Int2R(ext.ctc))

forward(self, in, ext) ==
    IF ~TextLengthsIsVector(in) THEN [res |-> Raised("AssertionError"), calls |-> <<>>]
    ELSE IF ~BatchUnified(in) THEN [res |-> Raised("AssertionError"), calls |-> <<>>]
    ELSE
    LET enc == EncoderCalls(ext)
        encoder_out == Val("encoder_out", Len(enc))
        encoder_mask == Val("encoder_mask", Len(enc))
        lens == encoder_out_lens(enc[Len(enc)].mask)
        att == IF AttBranchActive(self)
               THEN calc_att_loss(self, encoder_out, encoder_mask, self.reverse_weight,
                                  Len(enc), ext)
               ELSE [loss |-> None, calls |-> <<>>]
        ctc == IF CtcBranchActive(self)
               THEN [loss |-> Int2R(ext.ctc), calls |-> <<CtcCall(encoder_out, lens, ext)>>]
               ELSE [loss |-> None, calls |-> <<>>]
        loss == Blend(self.ctc_weight, ctc.loss, att.loss)
    IN  [ res |-> Returned([loss |-> loss, loss_att |-> att.loss, loss_ctc |-> ctc.loss]),
          calls |-> enc \o att.calls \o ctc.calls ]

Forward ==
    /\ Idle
    /\ \E self \in instances, in \in ForwardInputs :
        \E ext \in ForwardDraws(in) :
            LET out == forward(self, in, ext)
            IN  /\ call' = [op |-> "forward", args |-> in]
                /\ result' = out.res
                /\ trace' = out.calls
                /\ UNCHANGED <<instances, defaults, sess, aug, segs>>

\* the training loop takes the bundle (or the error) and goes on
Consume ==
    /\ call # NoCall /\ call.op = "forward"
    /\ call' = NoCall /\ result' = NoResult /\ trace' = <<>>
    /\ UNCHANGED <<instances, defaults, sess, aug, segs>>

TrainArgs ==
    { a \in CtorArgs : /\ a.configs.encoder_conf = "enc_small" /\ a.vocab_size = 100
                       /\ a.ignore_id = -1 /\ a.lsm_weight = Zero
                       /\ ~a.length_normalized_loss }

Init ==
    /\ \E a \in TrainArgs : instances = ConformerModelOffline(a).made
    /\ instances # {}
    /\ call = NoCall /\ result = NoResult /\ trace = <<>>
    /\ defaults = NoDefaults /\ sess = <<>> /\ aug = NoAug /\ segs = <<>>

Next == Forward \/ Consume

Spec == Init /\ [][Next]_vars

(************************ properties of forward ***************************)
ForwardReturned == call.op = "forward" /\ result.returned

\* the loss the criterion returned for the forward (reverse) decoder output
CriterionOn(tr, sym) == {i \in Calls(tr, "criterion_att") : tr[i].args[1].sym = sym}
FwdLossOf(tr) == tr[CHOOSE i \in CriterionOn(tr, "decoder_out") : TRUE].ret
RevLossOf(tr) ==
    IF CriterionOn(tr, "r_decoder_out") = {} THEN Zero
    ELSE tr[CHOOSE i \in CriterionOn(tr, "r_decoder_out") : TRUE].ret
AttentionCalls(tr) ==
    Calls(tr, "add_sos_eos") \cup Calls(tr, "reverse_pad_list") \cup Calls(tr, "decoder")
        \cup Calls(tr, "criterion_att") \cup Calls(tr, "th_accuracy")

\* C1: with 0 < ctc_weight < 1 every returned bundle has loss, loss_att and
\* loss_ctc all present, and loss = w * loss_ctc + (1 - w) * loss_att.
C1_BlendBoth ==
    \A m \in instances :
        (ForwardReturned /\ RLt(Zero, m.ctc_weight) /\ RLt(m.ctc_weight, One)) =>
            LET b == result.bundle
            IN  /\ b.loss # None /\ b.loss_att # None /\ b.loss_ctc # None
                /\ b.loss = RAdd(RMul(m.ctc_weight, b.loss_ctc),
                                 RMul(RSub(One, m.ctc_weight), b.loss_att))
                /\ \A i \in Calls(trace, "ctc") : b.loss_ctc = trace[i].ret

C1_Witness ==
    \E m \in instances :
        /\ ForwardReturned /\ RLt(Zero, m.ctc_weight) /\ RLt(m.ctc_weight, One)
        /\ result.bundle.loss_ctc # result.bundle.loss_att
        /\ result.bundle.loss \notin {result.bundle.loss_ctc, result.bundle.loss_att}

\* C2: a branch whose weight is zero is not run at all.  ctc_weight = 1: no
\* call of the attention branch, loss_att is None, loss is loss_ctc;
\* ctc_weight = 0: no call of the CTC loss, loss_ctc is None, loss is loss_att.
C2_ZeroWeightSkipped ==
    \A m \in instances :
        ForwardReturned =>
            LET b == result.bundle
            IN  /\ m.ctc_weight = One =>
                    /\ AttentionCalls(trace) = {}
                    /\ b.loss_att = None /\ b.loss_ctc # None /\ b.loss = b.loss_ctc
                    /\ \A i \in Calls(trace, "ctc") : b.loss = trace[i].ret
                /\ m.ctc_weight = Zero =>
                    /\ Calls(trace, "ctc") = {}
                    /\ b.loss_ctc = None /\ b.loss_att # None /\ b.loss = b.loss_att

C2_Witness ==
    \E m \in instances :
        /\ ForwardReturned /\ m.ctc_weight = One
        /\ Calls(trace, "ctc") # {} /\ result.bundle.loss = Int2R(MaxLoss)

\* the part of C3 that the code and the claim agree on
AttLossAsWeighted(m) ==
    /\ result.bundle.loss_att =
           RAdd(RMul(RSub(One, m.reverse_weight), FwdLossOf(trace)),
                RMul(m.reverse_weight, RevLossOf(trace)))
    /\ m.reverse_weight = Zero =>
           /\ RevLossOf(trace) = Zero
           /\ result.bundle.loss_att = FwdLossOf(trace)
           /\ CriterionOn(trace, "r_decoder_out") = {}
           /\ Cardinality(Calls(trace, "criterion_att")) = 1
           /\ \A i \in Calls(trace, "decoder") : trace[i].w = Zero

AttBranchRan == ForwardReturned /\ Calls(trace, "decoder") # {}

\* C3 as claimed: the attention loss is (1 - rw) * forward + rw * reverse, and
\* with rw = 0 the reverse loss is 0, the result is the forward loss, and no
\* step of the reverse path runs: no reverse target is built, none decoded,
\* no reverse loss evaluated.
C3_NoReverseStepAtAll ==
    \A m \in instances :
        AttBranchRan =>
            /\ AttLossAsWeighted(m)
            /\ m.reverse_weight = Zero =>
                   /\ Calls(trace, "reverse_pad_list") = {}
                   /\ \A i \in Calls(trace, "add_sos_eos") : trace[i].args[1].sym # "r_ys_pad"

\* C3 as amended: as above, except that the reverse targets are still built
\* (reverse_pad_list and add_sos_eos on its result, once each); only the
\* reverse loss evaluation is skipped and the decoder is handed weight 0.
C3_ReverseLossSkipped ==
    \A m \in instances :
        AttBranchRan =>
            /\ AttLossAsWeighted(m)
            /\ Cardinality(Calls(trace, "reverse_pad_list")) = 1
            /\ Cardinality({i \in Calls(trace, "add_sos_eos") :
                               trace[i].args[1].sym = "r_ys_pad"}) = 1

C3_Witness ==
    \E m \in instances :
        /\ AttBranchRan /\ m.reverse_weight = Zero
        /\ result.bundle.loss_att = Int2R(MaxLoss)

BatchDims(in) == {in.b_speech, in.b_speech_lengths, in.b_text, in.b_text_lengths}

NoModelWork ==
    /\ Calls(trace, "encoder") = {} /\ Calls(trace, "decoder") = {}
    /\ Calls(trace, "ctc") = {} /\ trace = <<>>
    /\ ~result.returned /\ result.bundle = NoBundle

\* C4 as claimed: when two of the four batch dimensions differ, forward fails
\* with ShapeMismatchError having called no encoder, decoder or CTC loss, and
\* returns no bundle.
C4_ShapeMismatchError ==
    (call.op = "forward" /\ Cardinality(BatchDims(call.args)) > 1) =>
        (result.err = "ShapeMismatchError" /\ NoModelWork)

\* C4 as amended: the same, the failure being an AssertionError.
C4_AssertionError ==
    (call.op = "forward" /\ Cardinality(BatchDims(call.args)) > 1) =>
        (result.err = "AssertionError" /\ NoModelWork)

C4_Witness ==
    /\ call.op = "forward" /\ call.args.text_lengths_dim = 1
    /\ call.args.b_speech = call.args.b_speech_lengths
    /\ call.args.b_text = call.args.b_speech
    /\ call.args.b_text_lengths # call.args.b_text
    /\ result.err = "AssertionError"

CountTrue(row) == Cardinality({t \in DOMAIN row : row[t]})

\* C9: a successful forward calls the encoder exactly once, first (its inputs
\* validated before), both branches take that call's output, and the CTC loss
\* is given the per-example counts of valid positions of that call's mask.
C9_EncodeOnce ==
    ForwardReturned =>
        /\ Cardinality(Calls(trace, "encoder")) = 1
        /\ trace[1].fn = "encoder"
        /\ Cardinality(BatchDims(call.args)) = 1 /\ call.args.text_lengths_dim = 1
        /\ \A i \in Calls(trace, "decoder") :
               /\ i > 1
               /\ trace[i].args[1] = Val("encoder_out", 1)
               /\ trace[i].args[2] = Val("encoder_mask", 1)
        /\ \A i \in Calls(trace, "ctc") :
               /\ i > 1
               /\ trace[i].args[1] = Val("encoder_out", 1)
               /\ trace[i].lens = [b \in DOMAIN trace[1].mask |-> CountTrue(trace[1].mask[b])]
        /\ Calls(trace, "decoder") \cup Calls(trace, "ctc") # {}

C9_Witness ==
    /\ ForwardReturned
    /\ Calls(trace, "decoder") # {} /\ Calls(trace, "ctc") # {}
    /\ \E b \in DOMAIN trace[1].mask : CountTrue(trace[1].mask[b]) < Len(trace[1].mask[b])
    /\ \E b, c \in DOMAIN trace[1].mask :
           CountTrue(trace[1].mask[b]) # CountTrue(trace[1].mask[c])

(************************ properties of construction **********************)
Constructors == {"ConformerModel", "ConformerModelOnline", "ConformerModelOffline"}

NothingBuilt == trace = <<>> /\ instances = {} /\ ~result.returned

InRange(w) == RLe(Zero, w) /\ RLe(w, One)

\* C5 as claimed: a construction (direct or through a preset) with ctc_weight
\* outside [0, 1] fails with ConfigError before the statistics are loaded or
\* any component is built; every instance that exists has ctc_weight in [0, 1].
C5_ConfigError ==
    /\ (call.op \in Constructors /\ ~InRange(call.args.ctc_weight)) =>
           (result.err = "ConfigError" /\ NothingBuilt)
    /\ \A m \in instances : InRange(m.ctc_weight)

\* C5 as amended: the same, the failure being an AssertionError.
C5_AssertionError ==
    /\ (call.op \in Constructors /\ ~InRange(call.args.ctc_weight)) =>
           (result.err = "AssertionError" /\ NothingBuilt)
    /\ \A m \in instances : InRange(m.ctc_weight)

C5_Witness ==
    /\ call.op = "ConformerModelOnline" /\ RLt(One, call.args.ctc_weight)
    /\ result.err = "AssertionError"

Forwarded(m, a) ==
    /\ m.input_dim = a.input_dim /\ m.encoder.input_dim = a.input_dim
    /\ m.encoder.conf = a.configs.encoder_conf /\ m.decoder.conf = a.configs.decoder_conf
    /\ m.encoder.global_cmvn = a.configs.mean_istd_path
    /\ m.vocab_size = a.vocab_size /\ m.decoder.vocab_size = a.vocab_size
    /\ m.ctc.vocab_size = a.vocab_size /\ m.criterion_att.size = a.vocab_size
    /\ m.ctc_weight = a.ctc_weight
    /\ m.ignore_id = a.ignore_id /\ m.criterion_att.padding_idx = a.ignore_id
    /\ m.reverse_weight = a.reverse_weight
    /\ m.criterion_att.smoothing = a.lsm_weight
    /\ m.criterion_att.normalize_length = a.length_normalized_loss

EncoderFlags(m) ==
    <<m.encoder.use_dynamic_chunk, m.encoder.use_dynamic_left_chunk, m.encoder.causal>>

SameButFlags(m, o) ==
    [m EXCEPT !.encoder.use_dynamic_chunk = FALSE, !.encoder.use_dynamic_left_chunk = FALSE,
              !.encoder.causal = FALSE]
    = [o EXCEPT !.encoder.use_dynamic_chunk = FALSE, !.encoder.use_dynamic_left_chunk = FALSE,
                !.encoder.causal = FALSE]

\* C8: a preset builds the ConformerModel its arguments describe, every
\* argument forwarded unchanged; online sets (use_dynamic_chunk,
\* use_dynamic_left_chunk, causal) = (TRUE, FALSE, TRUE), offline sets
\* (FALSE, FALSE, FALSE), and the two differ in nothing else.
C8_PresetsDifferInFlagsOnly ==
    (call.op \in {"ConformerModelOnline", "ConformerModelOffline"} /\ result.returned) =>
        /\ Cardinality(instances) = 1
        /\ Len(trace) = Len(InitCalls(call.args, FALSE, FALSE, FALSE))
        /\ \A m \in instances :
            /\ Forwarded(m, call.args)
            /\ call.op = "ConformerModelOnline" => EncoderFlags(m) = <<TRUE, FALSE, TRUE>>
            /\ call.op = "ConformerModelOffline" => EncoderFlags(m) = <<FALSE, FALSE, FALSE>>
            /\ \A o \in ConformerModelOnline(call.args).made \cup
                         ConformerModelOffline(call.args).made : SameButFlags(m, o)

C8_Witness ==
    /\ call.op = "ConformerModelOffline" /\ result.returned
    /\ call.args.lsm_weight # Zero /\ call.args.length_normalized_loss
    /\ call.args.reverse_weight = Norm(1, Scale) /\ call.args.ignore_id = 0
    /\ \E m \in instances : EncoderFlags(m) = <<FALSE, FALSE, FALSE>>

(************************ get_encoder_out_chunk ***************************)
Sessions == {1, 2}

LastN(seq, n) ==
    IF Len(seq) <= n THEN seq ELSE SubSeq(seq, Len(seq) - n + 1, Len(seq))

\* encoder.forward_chunk: a function of its arguments alone.  The chunk's
\* output stands for everything it may depend on; the attention cache keeps
\* the last required_cache_size frames, the convolution cache the last frame.
forward_chunk(xs, offset, required_cache_size, att_cache, cnn_cache) ==
    [ xs |-> [chunk |-> xs, offset |-> offset, att |-> att_cache, cnn |-> cnn_cache],
      att_cache |-> LastN(att_cache \o xs, required_cache_size),
      cnn_cache |-> LastN(xs, 1) ]

\* ctc.softmax
CtcSoftmax(xs) == [softmax |-> xs]

\* mutant: a call that omits the caches leaves the new ones in the default
\* tensors, which the next such call then starts from
GetEncoderOutChunkKeepsCache(self, defs, speech, offset, required_cache_size, omitted, att_arg, cnn_arg) ==
    LET att_cache == IF omitted THEN defs.att ELSE att_arg
        cnn_cache == IF omitted THEN defs.cnn ELSE cnn_arg
        r == forward_chunk(speech, offset, required_cache_size, att_cache, cnn_cache)
    IN  [ ret |-> <<CtcSoftmax(r.xs), r.att_cache, r.cnn_cache>>,
          defs |-> IF omitted THEN [att |-> r.att_cache, cnn |-> r.cnn_cache] ELSE defs,
          self |-> self ]

\* defs: the two default-argument tensors, made once when the method is
\* defined and used by every call that omits the caches
get_encoder_out_chunk(self, defs, speech, offset, required_cache_size, omitted, att_arg, cnn_arg) ==
    LET att_cache == IF omitted THEN defs.att ELSE att_arg
        cnn_cache == IF omitted THEN defs.cnn ELSE cnn_arg
        r == forward_chunk(speech, offset, required_cache_size, att_cache, cnn_cache)
    IN  [ ret |-> <<CtcSoftmax(r.xs), r.att_cache, r.cnn_cache>>,
          defs |-> defs,
          self |-> self ]

\* frames offset+1 .. offset+n of session s
ChunkOf(s, offset, n) == [j \in 1 .. n |-> [session |-> s, frame |-> offset + j]]

FreshSession(rcs) ==
    [ required_cache_size |-> rcs, k |-> 0, offset |-> 0, omitted |-> FALSE,
      att_cache |-> <<>>, cnn_cache |-> <<>>,
      passed |-> [att |-> <<>>, cnn |-> <<>>, offset |-> 0],
      fed |-> <<>>, outs |-> <<>> ]

\* the caller of session s feeds its next chunk, handing in the caches the
\* previous call returned (the first call may leave them out)
StreamChunk ==
    \E s \in Sessions, n \in 1 .. MaxChunkLen, omit \in BOOLEAN, self \in instances :
        /\ sess[s].k < MaxChunks
        /\ omit => sess[s].k = 0
        /\ LET c == sess[s]
               speech == ChunkOf(s, c.offset, n)
               out == get_encoder_out_chunk(self, defaults, speech, c.offset,
                                            c.required_cache_size, omit,
                                            c.att_cache, c.cnn_cache)
           IN
            /\ sess' = [sess EXCEPT ![s] =
                   [ required_cache_size |-> c.required_cache_size,
                     k |-> c.k + 1,
                     offset |-> c.offset + n,
                     omitted |-> IF c.k = 0 THEN omit ELSE c.omitted,
                     att_cache |-> out.ret[2],
                     cnn_cache |-> out.ret[3],
                     passed |-> [att |-> c.att_cache, cnn |-> c.cnn_cache, offset |-> c.offset],
                     fed |-> Append(c.fed, speech),
                     outs |-> Append(c.outs, out.ret[1]) ]]
            /\ defaults' = out.defs
            /\ instances' = {out.self}
            /\ UNCHANGED <<call, result, trace, aug, segs>>

\* a session ends and its caller starts a new one, from nothing
StreamRestart ==
    \E s \in Sessions :
        /\ sess[s].k = MaxChunks
        /\ sess' = [sess EXCEPT ![s] = FreshSession(sess[s].required_cache_size)]
        /\ UNCHANGED <<instances, call, result, trace, defaults, aug, segs>>

StreamArgs ==
    { a \in TrainArgs : a.ctc_weight = One /\ a.reverse_weight = Zero }

InitStream ==
    /\ \E a \in StreamArgs : instances = ConformerModelOnline(a).made
    /\ call = NoCall /\ result = NoResult /\ trace = <<>>
    /\ defaults = NoDefaults
    /\ sess \in [Sessions -> {FreshSession(rcs) : rcs \in 0 .. MaxCache}]
    /\ aug = NoAug /\ segs = <<>>

NextStream == StreamChunk \/ StreamRestart

SpecStream == InitStream /\ [][NextStream]_vars

\* session c run on its own, up to its j-th call, from a freshly defined model
RECURSIVE Alone(_, _, _)
Alone(self, c, j) ==
    IF j = 0
    THEN [defs |-> NoDefaults, att |-> <<>>, cnn |-> <<>>, offset |-> 0, outs |-> <<>>]
    ELSE LET p == Alone(self, c, j - 1)
             r == get_encoder_out_chunk(self, p.defs, c.fed[j], p.offset,
                                        c.required_cache_size, j = 1 /\ c.omitted,
                                        p.att, p.cnn)
         IN  [ defs |-> r.defs, att |-> r.ret[2], cnn |-> r.ret[3],
               offset |-> p.offset + Len(c.fed[j]), outs |-> Append(p.outs, r.ret[1]) ]

\* C6: get_encoder_out_chunk keeps nothing in the model: what it returns are
\* the encoder's new caches, a first call without caches starts from empty
\* ones, and under any interleaving of two sessions each call of a session
\* returns what it returns when the session runs alone.
C6_SessionsIndependent ==
    /\ defaults = NoDefaults
    /\ \A s \in Sessions, self \in instances :
        LET c == sess[s]
            a == Alone(self, c, c.k)
        IN  /\ c.outs = a.outs /\ c.att_cache = a.att /\ c.cnn_cache = a.cnn
            /\ c.k > 0 =>
                LET e == forward_chunk(c.fed[c.k], c.passed.offset, c.required_cache_size,
                                       c.passed.att, c.passed.cnn)
                IN  /\ c.att_cache = e.att_cache /\ c.cnn_cache = e.cnn_cache
                    /\ c.outs[c.k] = CtcSoftmax(e.xs)
            /\ (c.k > 0 /\ c.omitted) =>
                c.outs[1] = CtcSoftmax(forward_chunk(c.fed[1], 0, c.required_cache_size,
                                                     <<>>, <<>>).xs)

C6_Witness ==
    /\ \A s \in Sessions : sess[s].k = MaxChunks /\ sess[s].omitted
    /\ \A s \in Sessions : sess[s].att_cache # <<>>
    /\ sess[1].outs[1].softmax.chunk # sess[2].outs[1].softmax.chunk

(************************ ResampleAugmentor *******************************)
Rates == {8000, 16000, 32000}
SegIds == {1, 2}

RECURSIVE SeqsUpTo(_, _)
SeqsUpTo(S, n) ==
    IF n = 0 THEN {<<>>}
    ELSE LET shorter == SeqsUpTo(S, n - 1)
         IN  shorter \cup {Append(q, x) : q \in shorter, x \in S}

\* mutant: the first candidate is always taken
ChoiceFirst(a) == IF a = <<>> THEN {} ELSE {a[1]}

\* np.random.choice(a): the values it may return (none for an empty list,
\* for which it raises ValueError)
Choice(a) == {a[i] : i \in DOMAIN a}

\* AudioSegment.resample(target): the segment takes the target rate
Resample(seg, target) ==
    [seg EXCEPT !.sample_rate = target, !.resample_calls = Append(@, target)]

\* __init__
ResampleAugmentor(rng, new_sample_rate) == [_new_sample_rate |-> new_sample_rate, _rng |-> rng]

\* the outcomes one call may have
transform_audio(self, audio_segment) ==
    IF Choice(self._new_sample_rate) = {}
    THEN { [res |-> Raised("ValueError"), seg |-> audio_segment, self |-> self] }
    ELSE { [res |-> Returned(NoBundle), seg |-> Resample(audio_segment, r), self |-> self]
           : r \in Choice(self._new_sample_rate) }

TransformAudio ==
    \E s \in SegIds :
        /\ segs[s].transformed < MaxTransforms
        /\ \E out \in transform_audio(aug, segs[s]) :
            /\ call' = [op |-> "transform_audio", seg |-> s, candidates |-> aug._new_sample_rate]
            /\ result' = out.res
            /\ segs' = [segs EXCEPT ![s] = [out.seg EXCEPT !.transformed = @ + 1]]
            /\ aug' = out.self
            /\ UNCHANGED <<instances, trace, defaults, sess>>

\* the pipeline loads the next segment in place of a processed one
NextSegment ==
    \E s \in SegIds, r \in Rates :
        /\ segs[s].transformed = MaxTransforms
        /\ segs' = [segs EXCEPT ![s] = [sample_rate |-> r, resample_calls |-> <<>>, transformed |-> 0]]
        /\ call' = NoCall /\ result' = NoResult
        /\ UNCHANGED <<instances, trace, defaults, sess, aug>>

InitAug ==
    /\ instances = {} /\ call = NoCall /\ result = NoResult /\ trace = <<>>
    /\ defaults = NoDefaults /\ sess = <<>>
    /\ \E l \in SeqsUpTo(Rates, MaxRates) : aug = ResampleAugmentor("rng", l)
    /\ segs = [s \in SegIds |-> [sample_rate |-> 16000, resample_calls |-> <<>>, transformed |-> 0]]

NextAug == TransformAudio \/ NextSegment

SpecAug == InitAug /\ [][NextAug]_vars

Candidates == {aug._new_sample_rate[i] : i \in DOMAIN aug._new_sample_rate}

OncePerCall ==
    \A s \in SegIds :
        /\ Len(segs[s].resample_calls) = segs[s].transformed
        /\ \A i \in DOMAIN segs[s].resample_calls : segs[s].resample_calls[i] \in Candidates
        /\ segs[s].resample_calls # <<>> =>
               segs[s].sample_rate = segs[s].resample_calls[Len(segs[s].resample_calls)]

EveryCandidateCanBeChosen ==
    \A s \in SegIds, r \in Candidates :
        \E out \in transform_audio(aug, segs[s]) :
            out.res.returned /\ out.seg.sample_rate = r

ListUnchanged ==
    call.op = "transform_audio" => aug._new_sample_rate = call.candidates

\* C10 as claimed: every call of transform_audio calls resample exactly once,
\* on the segment it was given and no other, with a rate from the candidate
\* list; every candidate can be chosen; the list is left as it was.
C10_AlwaysResamplesOnce ==
    OncePerCall /\ EveryCandidateCanBeChosen /\ ListUnchanged

\* C10 as amended: the same for an augmentor whose candidate list is not
\* empty; with an empty list the call raises ValueError and resample is not
\* called (the list is left as it was in either case).
C10_ResamplesOnceIfCandidates ==
    /\ aug._new_sample_rate # <<>> =>
           (OncePerCall /\ EveryCandidateCanBeChosen
            /\ (call.op = "transform_audio" => result.returned))
    /\ aug._new_sample_rate = <<>> =>
           /\ \A s \in SegIds : segs[s].resample_calls = <<>>
           /\ call.op = "transform_audio" => result.err = "ValueError"
    /\ ListUnchanged

C10_Witness ==
    /\ Cardinality(Candidates) = 2
    /\ call.op = "transform_audio"
    /\ \E s \in SegIds :
          /\ Len(segs[s].resample_calls) = 2
          /\ segs[s].resample_calls[1] # segs[s].resample_calls[2]
          /\ segs[s].sample_rate # 16000
    /\ \E s \in SegIds : segs[s].transformed = 0 /\ segs[s].sample_rate = 16000
====
